---- MODULE Spec2Model ----
(***************************************************************************)
(* Model of scripts/excel_sql.py: SQL over the sheets of an open Excel     *)
(* workbook, with write-back of UPDATE / INSERT / DELETE to the sheet.     *)
(*                                                                         *)
(* Modelling notes.                                                        *)
(*  - The module's functions are modelled as written.  (As committed, the  *)
(*    default argument of _save_state at line 40 names DEFAULT_HEADER_ROW  *)
(*    before line 55 defines it; the model takes the constant as defined.) *)
(*  - A cell value is missing, a number or a text.  A number is carried    *)
(*    by its textual representation, so str() of a number is that text.    *)
(*  - The workbook has one sheet, "Orders".  Its used range is taken to    *)
(*    start at A1, which is what the coordinate arithmetic of the write    *)
(*    helpers presumes.                                                    *)
(*  - Indices i, j in the write helpers are the 0-based indices of the     *)
(*    Python code; sheet coordinates are 1-based.                          *)
(***************************************************************************)
EXTENDS Integers, Sequences, FiniteSets, TLC

\* ------------------------------------------------------------------ bounds
MaxCols == 2
MaxBodyRows == 2
MaxOps == 1

DEFAULT_HEADER_ROW == 3

\* the header rows a load is asked for: 1 .. the default
MaxHeaderRow == DEFAULT_HEADER_ROW

SheetRows == MaxHeaderRow + MaxBodyRows + 1
SheetName == "Orders"
WorkbookName == "Book1"

\* ------------------------------------------------------------------ values
NA == [k |-> "na", s |-> ""]
Num(s) == [k |-> "num", s |-> s]
Str(s) == [k |-> "str", s |-> s]

NumTexts == {"5", "6"}

isna(v) == v.k = "na"

\* str(v) of Python; a missing value prints as "None"
str(v) == IF isna(v) THEN "None" ELSE v.s

\* str.strip() on the texts of the model
strip(s) == IF s = " name" THEN "name" ELSE s

Min(a, b) == IF a < b THEN a ELSE b

\* ------------------------------------------------------------------ sheet
EmptyRow == [c \in 1..MaxCols |-> NA]
EmptySheet == [r \in 1..SheetRows |-> EmptyRow]

RowUsed(sh, r) == \E c \in 1..MaxCols : ~isna(sh[r][c])
ColUsed(sh, c) == \E r \in 1..SheetRows : ~isna(sh[r][c])

LastUsedRow(sh) ==
  IF \E r \in 1..SheetRows : RowUsed(sh, r)
  THEN CHOOSE r \in 1..SheetRows : RowUsed(sh, r) /\ \A q \in (r+1)..SheetRows : ~RowUsed(sh, q)
  ELSE 0

LastUsedCol(sh) ==
  IF \E c \in 1..MaxCols : ColUsed(sh, c)
  THEN CHOOSE c \in 1..MaxCols : ColUsed(sh, c) /\ \A q \in (c+1)..MaxCols : ~ColUsed(sh, q)
  ELSE 0

\* sheet.used_range...value with header=False: the raw rows of the sheet
used_range(sh) ==
  [r \in 1..LastUsedRow(sh) |-> [c \in 1..LastUsedCol(sh) |-> sh[r][c]]]

\* sheet.range((r, c)).value = v
write_cell(sh, r, c, v) == [sh EXCEPT ![r][c] = v]

\* sheet.used_range.clear_contents()
clear_contents(sh) ==
  [r \in 1..SheetRows |-> [c \in 1..MaxCols |->
      IF r <= LastUsedRow(sh) /\ c <= LastUsedCol(sh) THEN NA ELSE sh[r][c]]]

\* ------------------------------------------------------------------ loading
\* pd.DataFrame(list of lists): a column of numbers and blanks only becomes
\* float64 and its blanks become NaN; any other column keeps None for blanks
ColIsFloat(raw, c) ==
  /\ \A r \in 1..Len(raw) : raw[r][c].k \in {"num", "na"}
  /\ \E r \in 1..Len(raw) : raw[r][c].k = "num"

Placeholder(i) == <<"col_0", "col_1", "col_2", "col_3">>[i + 1]

\* str(c).strip() if c is not None else f"col_{i}"   (i is 0-based)
header_name(raw, h, i) ==
  LET c == raw[h + 1][i + 1] IN
  IF isna(c)
  THEN IF ColIsFloat(raw, i + 1) THEN "nan" ELSE Placeholder(i)
  ELSE strip(str(c))

NoFrames == <<>>

\* body of the loop of attach for one sheet; the result is the new _frames
load_sheet(sh, header_row) ==
  LET raw == used_range(sh)
      h == header_row - 1
  IN IF Len(raw) = 0 THEN NoFrames
     ELSE IF h >= Len(raw) THEN NoFrames
     ELSE LET headers == [i \in 1..Len(raw[1]) |-> header_name(raw, h, i - 1)]
              data == [r \in 1..(Len(raw) - h - 1) |-> raw[h + 1 + r]]
          IN (SheetName :> [cols |-> headers, rows |-> data])

\* ------------------------------------------------------------------ engine
\* the type pandas gives a column in CREATE TABLE: infer_dtype "floating"
\* maps to REAL; "string", "mixed" and "empty" map to TEXT
sql_type(t, c) ==
  IF /\ \E r \in 1..Len(t.rows) : t.rows[r][c].k = "num"
     /\ \A r \in 1..Len(t.rows) : t.rows[r][c].k \in {"num", "na"}
  THEN "REAL" ELSE "TEXT"

\* SQLite column affinity applied to a stored value
coerce(aff, v) ==
  IF aff = "TEXT" /\ v.k = "num" THEN Str(v.s)
  ELSE IF aff = "REAL" /\ v.k = "str" /\ v.s \in NumTexts THEN Num(v.s)
  ELSE v

has_duplicate_columns(t) ==
  \E a, b \in 1..Len(t.cols) : a # b /\ t.cols[a] = t.cols[b]

\* frame.to_sql(name, conn, index=False, if_exists="replace")
to_sql(t) ==
  LET types == [c \in 1..Len(t.cols) |-> sql_type(t, c)] IN
  [cols |-> t.cols, types |-> types,
   rows |-> [r \in 1..Len(t.rows) |-> [c \in 1..Len(t.cols) |-> coerce(types[c], t.rows[r][c])]]]

\* pd.read_sql('SELECT * FROM "table"', conn)
read_sql(db) == [cols |-> db.cols, rows |-> db.rows]

\* the 0-based row indices a WHERE clause selects in a table of n rows
where_rows(w, n) ==
  CASE w = "all" -> 0..(n - 1)
    [] w = "first" -> IF n > 0 THEN {0} ELSE {}
    [] w = "last" -> IF n > 0 THEN {n - 1} ELSE {}
    [] OTHER -> {}

\* the operand of SET x = x
Self == [k |-> "self", s |-> ""]

\* UPDATE t SET <column j> = val WHERE w   (val = Self is SET x = x)
sql_update(db, j, val, w) ==
  LET hit == where_rows(w, Len(db.rows)) IN
  [db EXCEPT !.rows = [r \in 1..Len(db.rows) |-> [c \in 1..Len(db.cols) |->
      IF (r - 1) \in hit /\ c = j + 1 /\ val # Self
      THEN coerce(db.types[c], val) ELSE db.rows[r][c]]]]

\* INSERT INTO t VALUES (v, v, ...)
sql_insert(db, v) ==
  [db EXCEPT !.rows = Append(db.rows, [c \in 1..Len(db.cols) |-> coerce(db.types[c], v)])]

RECURSIVE keep_rows(_, _, _)
keep_rows(rows, hit, r) ==
  IF r > Len(rows) THEN <<>>
  ELSE IF (r - 1) \in hit THEN keep_rows(rows, hit, r + 1)
  ELSE <<rows[r]>> \o keep_rows(rows, hit, r + 1)

\* DELETE FROM t WHERE w
sql_delete(db, w) ==
  [db EXCEPT !.rows = keep_rows(db.rows, where_rows(w, Len(db.rows)), 1)]

\* cursor.rowcount
rowcount(db, w) == Cardinality(where_rows(w, Len(db.rows)))

\* ------------------------------------------------------------------ value equality
\* a == b of Python on floats, strs and None never raises; it is False for
\* operands of different types and for NaN
eq_raises(a, b) == FALSE

py_eq(a, b) == ~isna(a) /\ ~isna(b) /\ a.k = b.k /\ a.s = b.s

values_equal(a, b) ==
  IF isna(a) /\ isna(b) THEN TRUE
  ELSE IF eq_raises(a, b) THEN str(a) = str(b)
  ELSE py_eq(a, b)

\* ------------------------------------------------------------------ write helpers
NoWrites == [changes |-> 0, log |-> <<>>]

\* one iteration of the inner loop of _diff_and_write
diff_cell(acc, old_df, new_df, i, j) ==
  LET old_val == IF j < Len(old_df.cols) THEN old_df.rows[i + 1][j + 1] ELSE NA
      new_val == new_df.rows[i + 1][j + 1]
  IN IF ~values_equal(old_val, new_val)
     THEN [sheet |-> write_cell(acc.sheet, i + 2, j + 1, new_val),
           changes |-> acc.changes + 1,
           log |-> Append(acc.log, [r |-> i + 2, c |-> j + 1, v |-> new_val, i |-> i, j |-> j])]
     ELSE acc

\* the row loop stopping one row early
diff_rows_short(old_df, new_df) == Min(Len(old_df.rows), Len(new_df.rows)) - 1

diff_rows(old_df, new_df) == Min(Len(old_df.rows), Len(new_df.rows))

RECURSIVE diff_loop(_, _, _, _)
diff_loop(acc, old_df, new_df, k) ==
  LET n == Len(new_df.cols) IN
  IF k >= diff_rows(old_df, new_df) * n THEN acc
  ELSE diff_loop(diff_cell(acc, old_df, new_df, k \div n, k % n), old_df, new_df, k + 1)

diff_and_write(sh, has_wb, old_df, new_df) ==
  IF ~has_wb THEN [sheet |-> sh] @@ NoWrites
  ELSE diff_loop([sheet |-> sh] @@ NoWrites, old_df, new_df, 0)

append_start_row(old_df) == Len(old_df.rows) + 2

RECURSIVE append_loop(_, _, _, _)
append_loop(acc, old_df, new_df, k) ==
  LET n == Len(new_df.cols)
      i == Len(old_df.rows) + (k \div n)
      j == k % n
      r == append_start_row(old_df) + (i - Len(old_df.rows))
  IN IF i >= Len(new_df.rows) THEN acc
     ELSE append_loop(
            [sheet |-> write_cell(acc.sheet, r, j + 1, new_df.rows[i + 1][j + 1]),
             changes |-> acc.changes + 1,
             log |-> Append(acc.log, [r |-> r, c |-> j + 1, v |-> new_df.rows[i + 1][j + 1],
                                       i |-> i, j |-> j])],
            old_df, new_df, k + 1)

append_rows(sh, has_wb, old_df, new_df) ==
  IF ~has_wb THEN [sheet |-> sh] @@ NoWrites
  ELSE append_loop([sheet |-> sh] @@ NoWrites, old_df, new_df, 0)

RECURSIVE rewrite_header(_, _, _)
rewrite_header(acc, new_df, j) ==
  IF j >= Len(new_df.cols) THEN acc
  ELSE rewrite_header(
         [sheet |-> write_cell(acc.sheet, 1, j + 1, Str(new_df.cols[j + 1])),
          changes |-> acc.changes + 1,
          log |-> Append(acc.log, [r |-> 1, c |-> j + 1, v |-> Str(new_df.cols[j + 1]),
                                    i |-> 0 - 1, j |-> j])],
         new_df, j + 1)

RECURSIVE rewrite_body(_, _, _)
rewrite_body(acc, new_df, k) ==
  LET n == Len(new_df.cols)
      i == k \div n
      j == k % n
  IN IF i >= Len(new_df.rows) THEN acc
     ELSE rewrite_body(
            [sheet |-> write_cell(acc.sheet, 2 + i, 1 + j, new_df.rows[i + 1][j + 1]),
             changes |-> acc.changes + 1,
             log |-> Append(acc.log, [r |-> 2 + i, c |-> 1 + j, v |-> new_df.rows[i + 1][j + 1],
                                       i |-> i, j |-> j])],
            new_df, k + 1)

\* new_df.empty
df_empty(t) == Len(t.rows) = 0 \/ Len(t.cols) = 0

rewrite_sheet(sh, has_wb, new_df) ==
  IF ~has_wb THEN [sheet |-> sh] @@ NoWrites
  ELSE LET cleared == [sheet |-> clear_contents(sh)] @@ NoWrites
           headed == rewrite_header(cleared, new_df, 0)
       IN IF ~df_empty(new_df) THEN rewrite_body(headed, new_df, 0) ELSE headed

\* ------------------------------------------------------------------ state
VARIABLES
  sheet,       \* the cells of sheet "Orders" in Excel
  wb,          \* _wb is not None
  frames,      \* _frames: sheet name -> table
  state_file,  \* contents of ~/.excel_sql_state.json
  hdr,         \* header_row of the load that filled _frames (0: none)
  ops,         \* number of statements written back so far
  last,        \* what the last call did
  eq_a, eq_b, eq_res   \* operands and result of a call of _values_equal

vars == <<sheet, wb, frames, state_file, hdr, ops, last, eq_a, eq_b, eq_res>>
prog_vars == <<sheet, wb, frames, state_file, hdr, ops, last>>
eq_vars == <<eq_a, eq_b, eq_res>>

NoState == [workbook |-> "", header_row |-> 0]
NoTable == [cols |-> <<>>, rows |-> <<>>]

Globals == [wb |-> wb, frames |-> frames, state_file |-> state_file, hdr |-> hdr]

\* _save_state(wb_name, header_row)
save_state(wb_name, header_row) == [workbook |-> wb_name, header_row |-> header_row]

\* attach(workbook_name, header_row); reachable: xw.Book(...) did not raise
attach(g, sh, header_row, reachable) ==
  IF ~reachable THEN g @@ [ok |-> FALSE]
  ELSE [wb |-> TRUE,
        frames |-> load_sheet(sh, header_row),
        state_file |-> save_state(WorkbookName, header_row),
        hdr |-> header_row,
        ok |-> TRUE]

\* reload(header_row); header_row = 0 stands for None
reload(g, sh, header_row, reachable) ==
  LET state == g.state_file
      wb_name == state.workbook
      hr == IF header_row # 0 THEN header_row ELSE state.header_row
  IN IF wb_name = "" THEN g @@ [ok |-> FALSE]
     ELSE attach(g, sh, hr, reachable)

\* _ensure_loaded(); field ok tells whether it re-attached
ensure_loaded(g, sh, reachable) ==
  IF DOMAIN g.frames = {}
  THEN IF g.state_file.workbook # ""
       THEN attach(g, sh, DEFAULT_HEADER_ROW, reachable)
       ELSE g @@ [ok |-> FALSE]
  ELSE g @@ [ok |-> FALSE]

\* what a call that is not a write-back leaves in "last"
Outcome(op, err, reattached) ==
  [op |-> op, err |-> err, reattached |-> reattached, kind |-> "", table |-> "",
   old |-> NoTable, new |-> NoTable, log |-> <<>>, changes |-> 0, affected |-> 0,
   noop |-> FALSE]

SetGlobals(g) ==
  /\ wb' = g.wb
  /\ frames' = g.frames
  /\ state_file' = g.state_file
  /\ hdr' = g.hdr

\* ------------------------------------------------------------------ statements
Kinds == {"UPDATE", "INSERT", "DELETE"}
UpdateVals == {Self, Num("6"), Str("5")}
InsertVals == {Num("6")}

GoodStmts ==
  [kind : {"UPDATE"}, parses : {TRUE}, table : {SheetName}, bad : {FALSE},
   col : 0..(MaxCols - 1), val : UpdateVals, where : {"all", "last"}]
  \cup
  [kind : {"INSERT"}, parses : {TRUE}, table : {SheetName}, bad : {FALSE},
   col : {0}, val : InsertVals, where : {"none"}]
  \cup
  [kind : {"DELETE"}, parses : {TRUE}, table : {SheetName}, bad : {FALSE},
   col : {0}, val : {Self}, where : {"first", "all"}]

Stmt(kind, parses, table, bad) ==
  [kind |-> kind, parses |-> parses, table |-> table, bad |-> bad,
   col |-> 0, val |-> Self, where |-> "all"]

BadStmts ==
  {Stmt(k, FALSE, SheetName, FALSE) : k \in Kinds}
  \cup {Stmt(k, TRUE, "Nope", FALSE) : k \in Kinds}
  \cup {Stmt(k, TRUE, SheetName, TRUE) : k \in Kinds}
  \cup {Stmt("SELECT", TRUE, SheetName, FALSE)}

Stmts == GoodStmts \cup BadStmts

Failed(g, sh, err) ==
  [frames |-> g.frames, sheet |-> sh, err |-> err, table |-> "",
   old |-> NoTable, new |-> NoTable, log |-> <<>>, changes |-> 0, affected |-> 0]

Done(g, w, table, old_df, new_df, affected) ==
  [frames |-> [g.frames EXCEPT ![table] = new_df], sheet |-> w.sheet, err |-> "none",
   table |-> table, old |-> old_df, new |-> new_df, log |-> w.log, changes |-> w.changes,
   affected |-> affected]

\* _handle_update(sql)
handle_update(g, sh, st) ==
  IF ~st.parses THEN Failed(g, sh, "parse")
  ELSE IF st.table \notin DOMAIN g.frames THEN Failed(g, sh, "notfound")
  ELSE LET df == g.frames[st.table]
           old_df == df
       IN IF has_duplicate_columns(df) THEN Failed(g, sh, "raise")
          ELSE LET db == to_sql(df) IN
               IF st.bad \/ st.col >= Len(df.cols) THEN Failed(g, sh, "sql")
               ELSE LET affected == rowcount(db, st.where)
                        new_df == read_sql(sql_update(db, st.col, st.val, st.where))
                        w == diff_and_write(sh, g.wb, old_df, new_df)
                    IN Done(g, w, st.table, old_df, new_df, affected)

\* _handle_insert(sql)
handle_insert(g, sh, st) ==
  IF ~st.parses THEN Failed(g, sh, "parse")
  ELSE IF st.table \notin DOMAIN g.frames THEN Failed(g, sh, "notfound")
  ELSE LET df == g.frames[st.table] IN
       IF has_duplicate_columns(df) THEN Failed(g, sh, "raise")
       ELSE LET db == to_sql(df) IN
            IF st.bad THEN Failed(g, sh, "sql")
            ELSE LET new_df == read_sql(sql_insert(db, st.val))
                     w == append_rows(sh, g.wb, df, new_df)
                 IN Done(g, w, st.table, df, new_df, 1)

\* _handle_delete rewriting the sheet before the engine has accepted the statement
handle_delete_early(g, sh, st) ==
  IF ~st.parses THEN Failed(g, sh, "parse")
  ELSE IF st.table \notin DOMAIN g.frames THEN Failed(g, sh, "notfound")
  ELSE LET df == g.frames[st.table] IN
       IF has_duplicate_columns(df) THEN Failed(g, sh, "raise")
       ELSE LET db == to_sql(df) IN
            IF st.bad THEN Failed(g, rewrite_sheet(sh, g.wb, df).sheet, "sql")
            ELSE LET affected == rowcount(db, st.where)
                     new_df == read_sql(sql_delete(db, st.where))
                     w == rewrite_sheet(sh, g.wb, new_df)
                 IN Done(g, w, st.table, df, new_df, affected)

\* _handle_delete(sql)
handle_delete(g, sh, st) ==
  IF ~st.parses THEN Failed(g, sh, "parse")
  ELSE IF st.table \notin DOMAIN g.frames THEN Failed(g, sh, "notfound")
  ELSE LET df == g.frames[st.table] IN
       IF has_duplicate_columns(df) THEN Failed(g, sh, "raise")
       ELSE LET db == to_sql(df) IN
            IF st.bad THEN Failed(g, sh, "sql")
            ELSE LET affected == rowcount(db, st.where)
                     new_df == read_sql(sql_delete(db, st.where))
                     w == rewrite_sheet(sh, g.wb, new_df)
                 IN Done(g, w, st.table, df, new_df, affected)

\* exec_sql(sql) after _ensure_loaded()
exec_sql(g, sh, st) ==
  IF st.kind = "UPDATE" THEN handle_update(g, sh, st)
  ELSE IF st.kind = "INSERT" THEN handle_insert(g, sh, st)
  ELSE IF st.kind = "DELETE" THEN handle_delete(g, sh, st)
  ELSE Failed(g, sh, "unsupported")

\* ------------------------------------------------------------------ initial sheets
ColName(c) == <<"id", "name", "qty", "note">>[c]

\* <<header variant, body variant>>
SheetVariants ==
  {<<"named", "typical">>, <<"named", "mixed">>, <<"blank", "num">>, <<"padded", "text">>}

HeaderCell(hv, c) ==
  IF hv = "blank" /\ c = MaxCols THEN NA
  ELSE IF hv = "padded" /\ c = 2 THEN Str(" name")
  ELSE Str(ColName(c))

BodyCell(bv, i, c) ==
  CASE bv = "num" -> Num(IF i % 2 = 1 THEN "5" ELSE "6")
    [] bv = "text" -> Str("a")
    [] bv = "mixed" -> IF i = 1 THEN Num("5") ELSE Str("a")
    [] OTHER -> IF c = 1 THEN Num("5") ELSE Str("a")

\* rows 1..Hs-1 carry meta information, row Hs the header, then nb body rows
InitSheet(Hs, v, nb) ==
  [r \in 1..SheetRows |-> [c \in 1..MaxCols |->
     IF r < Hs THEN (IF c = 1 THEN Str("meta") ELSE NA)
     ELSE IF r = Hs THEN HeaderCell(v[1], c)
     ELSE IF r <= Hs + nb THEN BodyCell(v[2], r - Hs, c)
     ELSE NA]]

InitSheets ==
  {EmptySheet} \cup
  {InitSheet(Hs, v, nb) : Hs \in {1, MaxHeaderRow}, v \in SheetVariants, nb \in 0..MaxBodyRows}

\* ------------------------------------------------------------------ actions
Init ==
  /\ sheet \in InitSheets
  /\ wb = FALSE
  /\ frames = NoFrames
  /\ state_file = NoState
  /\ hdr = 0
  /\ ops = 0
  /\ last = Outcome("start", "none", FALSE)
  /\ eq_a = NA /\ eq_b = NA /\ eq_res = "pending"

\* attach [workbook] [--header-row N]
Attach(header_row, reachable) ==
  \E g \in {attach(Globals, sheet, header_row, reachable)} :
    /\ SetGlobals(g)
    /\ last' = Outcome("load", IF g.ok THEN "none" ELSE "attach", FALSE)
    /\ UNCHANGED <<sheet, ops>>
    /\ UNCHANGED eq_vars

\* reload [--header-row N]
Reload(header_row, reachable) ==
  \E g \in {reload(Globals, sheet, header_row, reachable)} :
    /\ SetGlobals(g)
    /\ last' = Outcome("load", IF g.ok THEN "none" ELSE "attach", FALSE)
    /\ UNCHANGED <<sheet, ops>>
    /\ UNCHANGED eq_vars

\* sheets
ListSheets(reachable) ==
  \E g \in {ensure_loaded(Globals, sheet, reachable)} :
    /\ SetGlobals(g)
    /\ last' = Outcome("read", "none", g.ok)
    /\ UNCHANGED <<sheet, ops>>
    /\ UNCHANGED eq_vars

\* schema [sheet]
Schema(reachable) ==
  \E g \in {ensure_loaded(Globals, sheet, reachable)} :
    /\ SetGlobals(g)
    /\ last' = Outcome("read", "none", g.ok)
    /\ UNCHANGED <<sheet, ops>>
    /\ UNCHANGED eq_vars

\* query "SQL"
Query(reachable) ==
  \E g \in {ensure_loaded(Globals, sheet, reachable)} :
    /\ SetGlobals(g)
    /\ last' = Outcome("read", "none", g.ok)
    /\ UNCHANGED <<sheet, ops>>
    /\ UNCHANGED eq_vars

\* exec "SQL"
Exec(st, reachable) ==
  /\ ops < MaxOps
  /\ \E g \in {ensure_loaded(Globals, sheet, reachable)} :
       /\ (st.kind = "INSERT" /\ st.table \in DOMAIN g.frames)
             => Len(g.frames[st.table].rows) + 2 <= SheetRows
       /\ \E res \in {exec_sql(g, sheet, st)} :
            /\ wb' = g.wb
            /\ state_file' = g.state_file
            /\ hdr' = g.hdr
            /\ frames' = res.frames
            /\ sheet' = res.sheet
            /\ ops' = IF res.err = "none" THEN ops + 1 ELSE ops
            /\ last' = [op |-> "exec", err |-> res.err, reattached |-> g.ok,
                        kind |-> st.kind, table |-> res.table, old |-> res.old,
                        new |-> res.new, log |-> res.log, changes |-> res.changes,
                        affected |-> res.affected,
                        noop |-> (st.kind = "UPDATE" /\ st.val = Self)]
  /\ UNCHANGED eq_vars

\* the process ends; the next CLI invocation starts with fresh globals
ProcessExit ==
  /\ wb' = FALSE
  /\ frames' = NoFrames
  /\ hdr' = 0
  /\ last' = Outcome("start", "none", FALSE)
  /\ UNCHANGED <<sheet, state_file, ops>>
  /\ UNCHANGED eq_vars

Next ==
  \/ \E H \in 1..MaxHeaderRow, reachable \in BOOLEAN : Attach(H, reachable)
  \/ \E H \in 0..MaxHeaderRow, reachable \in BOOLEAN : Reload(H, reachable)
  \/ \E reachable \in BOOLEAN : ListSheets(reachable)
  \/ \E reachable \in BOOLEAN : Schema(reachable)
  \/ \E reachable \in BOOLEAN : Query(reachable)
  \/ \E st \in Stmts, reachable \in BOOLEAN : Exec(st, reachable)
  \/ ProcessExit

Spec == Init /\ [][Next]_vars

\* ------------------------------------------------------------------ _values_equal alone
EqValues == {NA, Num("5"), Num("6"), Str("5"), Str("6"), Str("a"), Str("None"), Str("")}

InitEq ==
  /\ sheet = EmptySheet
  /\ wb = FALSE
  /\ frames = NoFrames
  /\ state_file = NoState
  /\ hdr = 0
  /\ ops = 0
  /\ last = Outcome("start", "none", FALSE)
  /\ eq_a \in EqValues
  /\ eq_b \in EqValues
  /\ eq_res = "pending"

\* _values_equal(a, b)
CallValuesEqual ==
  /\ eq_res = "pending"
  /\ eq_res' = IF values_equal(eq_a, eq_b) THEN "True" ELSE "False"
  /\ UNCHANGED <<eq_a, eq_b>>
  /\ UNCHANGED prog_vars

NextEq == CallValuesEqual

SpecEq == InitEq /\ [][NextEq]_vars

\* ------------------------------------------------------------------ claims
WroteBack(kind) == last.op = "exec" /\ last.err = "none" /\ last.kind = kind
WroteBackNext(kind) == last'.op = "exec" /\ last'.err = "none" /\ last'.kind = kind

LogPositions(L) == {<<L[k].i, L[k].j>> : k \in 1..Len(L)}
LogRows(L) == {L[k].r : k \in 1..Len(L)}

\* the positions of O and N that differ under the value-equality rule
UnequalPositions(O, N) ==
  {p \in (0..(Min(Len(O.rows), Len(N.rows)) - 1)) \X (0..(Len(N.cols) - 1)) :
     ~values_equal(O.rows[p[1] + 1][p[2] + 1], N.rows[p[1] + 1][p[2] + 1])}

C2_UpdateRowOffsetIsHeaderRow ==
  WroteBack("UPDATE") =>
    \A k \in 1..Len(last.log) :
      /\ last.log[k].r = hdr + 1 + last.log[k].i
      /\ last.log[k].c = last.log[k].j + 1
      /\ last.log[k].r > hdr

\* C3: an INSERT write-back writes exactly len(N) - len(O) contiguous sheet
\* rows, the first one right below the sheet row of O's last body row (for
\* the header_row H of the load); row k of the block holds N's row
\* len(O) + k, and nothing at or above O's last row is written.
C3_InsertAppendsBelowLastRow ==
  WroteBack("INSERT") =>
    LET O == last.old
        N == last.new
        first == hdr + Len(O.rows) + 1
    IN /\ Len(N.rows) > Len(O.rows)
       /\ LogRows(last.log) = first..(first + (Len(N.rows) - Len(O.rows)) - 1)
       /\ \A k \in 0..(Len(N.rows) - Len(O.rows) - 1) : \A c \in 1..Len(N.cols) :
            sheet[first + k][c] = N.rows[Len(O.rows) + k + 1][c]
       /\ \A k \in 1..Len(last.log) : last.log[k].r > hdr + Len(O.rows)

\* C4: after a DELETE write-back the header row holds N's column names, N's
\* body rows follow as a block from the row right below the header row, and
\* every other cell that held content of the old table is empty.
C4_DeleteRewritesHeaderAndBody ==
  WroteBack("DELETE") =>
    LET O == last.old
        N == last.new
    IN \A c \in 1..Len(N.cols) :
         /\ sheet[hdr][c] = Str(N.cols[c])
         /\ \A i \in 1..Len(N.rows) : sheet[hdr + i][c] = N.rows[i][c]
         /\ \A i \in (Len(N.rows) + 1)..Len(O.rows) : sheet[hdr + i][c] = NA

\* C5: equal(missing, missing) is true, equal(5, "5") is true, equal(5, 6)
\* is false, and equal(missing, v) is false for every v that is not missing.
C5_ValueEqualityCases ==
  (eq_res # "pending") =>
    /\ (isna(eq_a) /\ isna(eq_b)) => eq_res = "True"
    /\ (eq_a = Num("5") /\ eq_b = Str("5")) => eq_res = "True"
    /\ (eq_a = Num("5") /\ eq_b = Num("6")) => eq_res = "False"
    /\ (isna(eq_a) /\ ~isna(eq_b)) => eq_res = "False"

\* C6: right after a load with header_row H, an UPDATE that sets a column to
\* its own value leaves every cell of the sheet as it was, and a reload with
\* the same H gives the snapshot of the first load.
C6_NoOpUpdateRoundTrip ==
  [][(/\ last.op = "load" /\ last.err = "none"
      /\ WroteBackNext("UPDATE") /\ last'.noop)
     => (sheet' = sheet /\ load_sheet(sheet', hdr') = frames)]_vars

\* C7: an exec call that ends in an error writes nothing to the sheet and
\* leaves every table of the snapshot store as it was; the sheet changes only
\* in an exec call that ran the statement and re-read the target table.
C7_ErrorsWriteNothing ==
  [][/\ (last'.op = "exec" /\ last'.err # "none")
          => /\ sheet' = sheet
             /\ \A n \in DOMAIN frames : n \in DOMAIN frames' /\ frames'[n] = frames[n]
     /\ (sheet' # sheet)
          => /\ last'.op = "exec" /\ last'.err = "none"
             /\ frames'[last'.table] = last'.new]_vars

\* an exec call that the engine rejected, against a loaded table with rows
C7_Witness ==
  /\ last.op = "exec"
  /\ last.err = "sql"
  /\ SheetName \in DOMAIN frames
  /\ Len(frames[SheetName].rows) > 0

\* C8: a load with header_row H gives the table whose column names are the
\* cells of raw row H (col_<i> for an empty cell at position i, so no name is
\* empty) and whose body is the raw rows after H in order; a sheet with an
\* empty used range or fewer than H rows is left out of the store.
C8_LoadHonoursHeaderRow ==
  (last.op = "load" /\ last.err = "none") =>
    LET raw == used_range(sheet) IN
    IF Len(raw) = 0 \/ Len(raw) < hdr
    THEN SheetName \notin DOMAIN frames
    ELSE /\ SheetName \in DOMAIN frames
         /\ LET T == frames[SheetName] IN
            /\ Len(T.cols) = Len(raw[hdr])
            /\ \A c \in 1..Len(T.cols) :
                 /\ T.cols[c] = IF isna(raw[hdr][c]) THEN Placeholder(c - 1)
                                ELSE strip(str(raw[hdr][c]))
                 /\ T.cols[c] # ""
            /\ Len(T.rows) = Len(raw) - hdr
            /\ \A r \in 1..Len(T.rows) : T.rows[r] = raw[hdr + r]

\* C9: after every successful exec statement the sheet and the snapshot
\* agree (a reload with the same header_row returns the snapshot in memory),
\* and a statement that is not a full rewrite leaves the header row as it was.
C9_SheetAndSnapshotAgree ==
  [][(last'.op = "exec" /\ last'.err = "none")
     => /\ load_sheet(sheet', hdr') = frames'
        /\ (last'.kind # "DELETE") => sheet'[hdr'] = sheet[hdr']]_vars

\* C10: an invocation that finds the snapshot store empty re-loads the
\* workbook with the persisted header_row, and the persisted header_row is
\* the same afterwards; only attach and reload write the session state.
C10_ReattachUsesPersistedHeaderRow ==
  [][/\ last'.reattached
          => /\ hdr' = state_file.header_row
             /\ state_file'.header_row = state_file.header_row
     /\ (state_file' # state_file) => last'.op = "load"]_vars

====
